---- MODULE Spec2Model ----
(***************************************************************************)
(* State-machine model of the CameraCapture React component                *)
(* (src/components/CameraCapture.tsx): camera acquisition with fallback    *)
(* strategies, stream release, the mount / visibility / teardown effect    *)
(* and the capture-and-analyze handler.                                    *)
(*                                                                         *)
(* JavaScript runs the component single threaded: every action below is    *)
(* one run-to-completion step (an event handler, a timer callback, or the  *)
(* continuation of an await).                                              *)
(***************************************************************************)
EXTENDS Integers, Sequences, FiniteSets, TLC

\* ---------------------------------------------------------------- bounds
\* number of startCamera invocations explored
MaxAcq == 2
\* number of capture clicks explored
MaxCaptures == 2

\* ------------------------------------------------------------- constants
Null == "null"
None == "none"

\* the strategy list of startCamera, in list order
Strategies == <<"environment", "user", "any">>

\* error names getUserMedia can reject with: the names the catch block
\* tests, plus AbortError as a name none of its rows tests
ErrorNames ==
  {"NotAllowedError", "PermissionDeniedError", "NotFoundError",
   "DevicesNotFoundError", "NotReadableError", "TrackStartError",
   "OverconstrainedError", "AbortError"}

\* the error name getUserMedia rejects with in the lifecycle specification
\* (SpecAcquire draws from all of ErrorNames)
LifecycleErrors == {"NotAllowedError"}

\* the messages passed to setError (abbreviated texts of the source strings)
MsgUnsupported == "Camera API not supported"
MsgUnknown == "Unable to access camera"
MsgPermissionDenied == "Camera permission denied"
MsgDeviceNotFound == "No camera device found"
MsgDeviceBusy == "Camera is currently in use"
MsgConstraints == "Camera constraints could not be satisfied"
MsgInsecure == "Camera access requires a secure HTTPS connection"
MsgPlaybackFailed == "Camera permission granted, but video preview failed to start"
MsgAnalysisFailed == "Analysis failed"

\* ------------------------------------------------------------- variables
VARIABLES
  apiSupported,    \* navigator.mediaDevices?.getUserMedia is present
  page,            \* [https, localhost]: location.protocol / location.hostname
  mounted,         \* the component is mounted (React accepts state updates)
  videoRef,        \* videoRef.current is non-null
  srcObject,       \* video.srcObject: a stream id, or 0 for null
  metaPending,     \* loadedmetadata of the current srcObject has not fired yet
  plays,           \* stream ids with a pending video.play() promise
  streams,         \* streams[s] in {"live", "stopped"}: tracks of opened stream s
  isStreaming,     \* useState isStreaming
  analyzing,       \* useState analyzing
  error,           \* useState error (Null or a message)
  effect,          \* the active useEffect run: [ran, isMounted, depError, timer]
  listeners,       \* number of registered visibilitychange listeners
  acq,             \* the startCamera invocations, in call order
  captures         \* captureAndAnalyze: [clicks, calls, pending, shot, failedOn]

vars ==
  <<apiSupported, page, mounted, videoRef, srcObject, metaPending, plays,
    streams, isStreaming, analyzing, error, effect, listeners, acq,
    captures>>

\* ---------------------------------------------------------- pure helpers
\* React drops state updates of an unmounted component
SetState(cur, new) == IF mounted THEN new ELSE cur

\* the capability check left out: getUserMedia is reached on any platform
ApiSupported_Always == TRUE

\* line 29: the capability check of startCamera
ApiSupported == apiSupported

\* line 51: if (stream)
StreamTruthy(s) == s # 0

\* the loop without its break: it goes on to the next strategy
NextAfterOpen_NoBreak(i, s) == i + 1

\* lines 50-53: index the loop continues at after getUserMedia resolved
\* with stream s for strategy i (break leaves the loop)
NextAfterOpen(i, s) == IF StreamTruthy(s) THEN Len(Strategies) + 1 ELSE i + 1

\* only the first failure is kept
RecordError_KeepFirst(prev, e) == IF prev = None THEN e ELSE prev

\* line 57: lastError = e
RecordError(prev, e) == e

\* line 63: throw lastError || new Error("No camera devices found.")
ThrownError(lastError) == IF lastError # None THEN lastError ELSE "Error"

\* line 96: location.protocol !== 'https:' && location.hostname !== 'localhost'
InsecurePage == ~page.https /\ ~page.localhost

\* the secure-context test made before the tests of err.name
FailureMessage_InsecureFirst(name) ==
  IF InsecurePage
    THEN MsgInsecure
  ELSE IF name = "NotAllowedError" \/ name = "PermissionDeniedError"
    THEN MsgPermissionDenied
  ELSE IF name = "NotFoundError" \/ name = "DevicesNotFoundError"
    THEN MsgDeviceNotFound
  ELSE IF name = "NotReadableError" \/ name = "TrackStartError"
    THEN MsgDeviceBusy
  ELSE IF name = "OverconstrainedError"
    THEN MsgConstraints
  ELSE MsgUnknown

\* lines 86-98: the message the catch block of startCamera derives from err.name
FailureMessage(name) ==
  IF name = "NotAllowedError" \/ name = "PermissionDeniedError"
    THEN MsgPermissionDenied
  ELSE IF name = "NotFoundError" \/ name = "DevicesNotFoundError"
    THEN MsgDeviceNotFound
  ELSE IF name = "NotReadableError" \/ name = "TrackStartError"
    THEN MsgDeviceBusy
  ELSE IF name = "OverconstrainedError"
    THEN MsgConstraints
  ELSE IF InsecurePage
    THEN MsgInsecure
  ELSE MsgUnknown

\* lines 18-22: stopTracks(stream) applied to the stream table strs
stopTracks(strs, s) == IF s # 0 THEN [strs EXCEPT ![s] = "stopped"] ELSE strs

\* the stream is attached without looking at videoRef.current
VideoRefCurrent_Always == TRUE

\* line 66: if (videoRef.current)
VideoRefCurrent == videoRef

InFlight == {a \in 1..Len(acq) : acq[a].pc = "await"}
LiveStreams == {s \in 1..Len(streams) : streams[s] = "live"}

\* ------------------------------------------------------------ startCamera
\* lines 24-32 and the first loop iteration (lines 48-50): the synchronous
\* part of startCamera up to its first await.  trigger records the caller,
\* pre what a visibility regain found when it made the call.
startCamera(trigger) ==
  LET pre == [attached |-> trigger = "visibility" /\ srcObject # 0,
              shown    |-> trigger = "visibility" /\ error # Null,
              inflight |-> trigger = "visibility" /\ InFlight # {}]
      r0 == [trigger |-> trigger, pre |-> pre, pc |-> "await", i |-> 1,
             stream |-> 0, lastError |-> None, attempts |-> <<>>,
             errs |-> <<>>, outcome |-> None, late |-> FALSE]
  IN /\ Len(acq) < MaxAcq
     /\ isStreaming' = SetState(isStreaming, FALSE)
     /\ IF ~ApiSupported
          THEN /\ error' = SetState(error, MsgUnsupported)
               /\ acq' = Append(acq, [r0 EXCEPT !.pc = "done",
                                                 !.outcome = MsgUnsupported])
          ELSE /\ error' = SetState(error, Null)
               /\ acq' = Append(acq, [r0 EXCEPT
                                        !.attempts = <<Strategies[1]>>])

\* lines 61-101: what startCamera a does after the loop, r being its locals
\* and strs the stream table after the last getUserMedia outcome
Finish(a, r, strs) ==
  IF r.stream = 0
    THEN \* line 63 throws, lines 83-100 classify and surface
         LET msg == FailureMessage(ThrownError(r.lastError))
         IN /\ error' = SetState(error, msg)
            /\ acq' = [acq EXCEPT ![a] = [r EXCEPT !.pc = "done",
                                                   !.outcome = msg]]
            /\ streams' = strs
            /\ UNCHANGED <<srcObject, metaPending>>
  ELSE IF VideoRefCurrent
    THEN \* lines 67-78: attach and install onloadedmetadata
         /\ srcObject' = r.stream
         /\ metaPending' = TRUE
         /\ streams' = strs
         /\ acq' = [acq EXCEPT ![a] = [r EXCEPT !.pc = "done",
                                                !.outcome = "attached"]]
         /\ UNCHANGED error
  ELSE   \* line 81: stopTracks(stream)
         /\ streams' = stopTracks(strs, r.stream)
         /\ acq' = [acq EXCEPT ![a] = [r EXCEPT !.pc = "done",
                                                !.outcome = "discarded"]]
         /\ UNCHANGED <<srcObject, metaPending, error>>

\* lines 48-59: the loop continues at index next, or is left
Loop(a, r, next, strs) ==
  IF next <= Len(Strategies)
    THEN /\ acq' = [acq EXCEPT ![a] =
                      [r EXCEPT !.i = next,
                                !.attempts = Append(@, Strategies[next])]]
         /\ streams' = strs
         /\ UNCHANGED <<srcObject, metaPending, error>>
    ELSE Finish(a, r, strs)

\* line 50 resolves: the platform opened a stream for strategy acq[a].i
GumResolve(a) ==
  /\ a \in InFlight
  /\ LET s == Len(streams) + 1
         r == [acq[a] EXCEPT !.stream = s, !.late = ~mounted]
     IN Loop(a, r, NextAfterOpen(r.i, s), Append(streams, "live"))
  /\ UNCHANGED <<apiSupported, page, mounted, videoRef, plays, isStreaming,
                 analyzing, effect, listeners, captures>>

\* line 50 rejects with an error named e (lines 55-58)
GumReject(a, E) ==
  /\ a \in InFlight
  /\ \E e \in E :
       LET r == [acq[a] EXCEPT !.lastError = RecordError(@, e),
                               !.errs = Append(@, e)]
       IN Loop(a, r, r.i + 1, streams)
  /\ UNCHANGED <<apiSupported, page, mounted, videoRef, plays, isStreaming,
                 analyzing, effect, listeners, captures>>

\* ------------------------------------------------------------- stopCamera
\* line 105: videoRef.current && videoRef.current.srcObject, ref telling
\* whether videoRef.current is still set when stopCamera runs
HasStream(ref) == ref /\ srcObject # 0

\* lines 104-111.  Clearing srcObject also ends the pending load of the
\* video element, so its loadedmetadata no longer fires.
stopCamera(ref) ==
  IF HasStream(ref)
    THEN /\ streams' = stopTracks(streams, srcObject)
         /\ srcObject' = 0
         /\ metaPending' = FALSE
         /\ isStreaming' = SetState(isStreaming, FALSE)
    ELSE UNCHANGED <<streams, srcObject, metaPending, isStreaming>>

\* -------------------------------------------------------------- useEffect
\* the listener of the previous run is still registered when the effect
\* body runs again
EffectSetup_KeepsListener(err, registered) ==
  /\ effect' = [ran |-> TRUE, isMounted |-> TRUE, depError |-> err,
                timer |-> IF effect.ran THEN "rerun" ELSE "mount"]
  /\ listeners' = listeners + 1

\* lines 114-128: one run of the effect body, under the rendered error err
\* and the listeners registered before it
EffectSetup(err, registered) ==
  /\ effect' = [ran |-> TRUE, isMounted |-> TRUE, depError |-> err,
                timer |-> IF effect.ran THEN "rerun" ELSE "mount"]
  /\ listeners' = registered + 1

\* first run of the effect after the first render
Mount ==
  /\ mounted /\ ~effect.ran
  /\ EffectSetup(error, listeners)
  /\ UNCHANGED <<apiSupported, page, mounted, videoRef, srcObject,
                 metaPending, plays, streams, isStreaming, analyzing, error,
                 acq, captures>>

\* line 136: a render with a changed error dependency runs the cleanup of
\* the previous run (lines 130-135) and then the effect body again
EffectRerun ==
  /\ mounted /\ effect.ran
  /\ error # effect.depError
  /\ stopCamera(videoRef)
  /\ EffectSetup(error, listeners - 1)
  /\ UNCHANGED <<apiSupported, page, mounted, videoRef, plays, analyzing,
                 error, acq, captures>>

\* unmount: React detaches videoRef and runs the cleanup (lines 130-135).
\* Whether the ref is detached before the cleanup runs depends on the React
\* version (passive effect cleanups run after the commit since React 17),
\* so both orders are explored.
Unmount ==
  /\ mounted
  /\ mounted' = FALSE
  /\ videoRef' = FALSE
  /\ IF effect.ran
       THEN /\ \E refDetachedFirst \in BOOLEAN :
                 stopCamera(videoRef /\ ~refDetachedFirst)
            /\ effect' = [effect EXCEPT !.isMounted = FALSE, !.timer = None]
            /\ listeners' = listeners - 1
       ELSE UNCHANGED <<streams, srcObject, metaPending, isStreaming, effect,
                        listeners>>
  /\ captures' = [captures EXCEPT !.failedOn = 0]
  /\ UNCHANGED <<apiSupported, page, plays, analyzing, error, acq>>

\* lines 117-119: the 100 ms timer of the active effect run fires
TimerFires ==
  /\ effect.timer # None
  /\ effect' = [effect EXCEPT !.timer = None]
  /\ IF effect.isMounted
       THEN startCamera(effect.timer)
       ELSE UNCHANGED <<isStreaming, error, acq>>
  /\ UNCHANGED <<apiSupported, page, mounted, videoRef, srcObject,
                 metaPending, plays, streams, analyzing, listeners, captures>>

\* line 123: the guard of handleVisibilityChange; error is the value the
\* effect run closed over
VisibilityGuard == effect.isMounted /\ srcObject = 0 /\ effect.depError = Null

\* lines 121-128: a visibilitychange event of the document, which leaves it
\* in visibilityState; the registered listener runs handleVisibilityChange
VisibilityChange ==
  /\ \E visibilityState \in {"visible", "hidden"} :
       IF listeners > 0 /\ visibilityState = "visible" /\ VisibilityGuard
         THEN startCamera("visibility")
         ELSE UNCHANGED <<isStreaming, error, acq>>
  /\ UNCHANGED <<apiSupported, page, mounted, videoRef, srcObject,
                 metaPending, plays, streams, analyzing, effect, listeners,
                 captures>>

\* lines 184, 196-201: the Retry Connection button, rendered while error is
\* set; React flushes pending effects before it handles the click
RetryClick ==
  /\ mounted /\ effect.ran
  /\ error # Null
  /\ effect.depError = error
  /\ startCamera("retry")
  /\ captures' = [captures EXCEPT !.failedOn = 0]
  /\ UNCHANGED <<apiSupported, page, mounted, videoRef, srcObject,
                 metaPending, plays, streams, analyzing, effect, listeners>>

\* ---------------------------------------------------------- playback
\* lines 70-72: loadedmetadata fires for the attached stream and the handler
\* calls play(); with videoRef.current null the optional call is skipped and
\* setIsStreaming(true) reaches an unmounted component
LoadedMetadata ==
  /\ metaPending
  /\ metaPending' = FALSE
  /\ plays' = IF videoRef THEN plays \cup {srcObject} ELSE plays
  /\ UNCHANGED <<apiSupported, page, mounted, videoRef, srcObject, streams,
                 isStreaming, analyzing, error, effect, listeners, acq,
                 captures>>

\* lines 72-73: play() resolved.  A play() still pending when srcObject is
\* replaced or cleared is settled by the load the video element starts
\* then: resolved if its playback had begun, rejected otherwise; the
\* continuation of the await runs afterwards in both cases.
PlayResolve(s) ==
  /\ s \in plays
  /\ plays' = plays \ {s}
  /\ isStreaming' = SetState(isStreaming, TRUE)
  /\ UNCHANGED <<apiSupported, page, mounted, videoRef, srcObject,
                 metaPending, streams, analyzing, error, effect, listeners,
                 acq, captures>>

\* the rejection folded into the generic failure message
PlayReject_Unknown(s) ==
  /\ s \in plays
  /\ plays' = plays \ {s}
  /\ error' = SetState(error, MsgUnknown)
  /\ UNCHANGED <<apiSupported, page, mounted, videoRef, srcObject,
                 metaPending, streams, isStreaming, analyzing, effect,
                 listeners, acq, captures>>

\* lines 74-77: play() rejected
PlayReject(s) ==
  /\ s \in plays
  /\ plays' = plays \ {s}
  /\ error' = SetState(error, MsgPlaybackFailed)
  /\ UNCHANGED <<apiSupported, page, mounted, videoRef, srcObject,
                 metaPending, streams, isStreaming, analyzing, effect,
                 listeners, acq, captures>>

\* ------------------------------------------------------ captureAndAnalyze
\* the capture button not disabled while an analysis is running
CaptureEnabled_WhileAnalyzing == isStreaming

\* line 228: the capture button is enabled
CaptureEnabled == isStreaming /\ ~analyzing

\* lines 138-154: a click on the capture button, up to the await of the
\* analysis call; context tells whether getContext('2d') returned a context
CaptureClick ==
  /\ mounted /\ effect.ran /\ effect.depError = error
  /\ CaptureEnabled
  /\ captures.clicks < MaxCaptures
  /\ IF ~videoRef
       THEN UNCHANGED <<analyzing, captures>>
       ELSE /\ analyzing' = SetState(analyzing, TRUE)
            /\ \E context \in BOOLEAN :
                 captures' = IF context
                   THEN [captures EXCEPT !.clicks = @ + 1, !.calls = @ + 1,
                                         !.pending = @ + 1,
                                         !.shot = srcObject]
                   ELSE [captures EXCEPT !.clicks = @ + 1]
  /\ UNCHANGED <<apiSupported, page, mounted, videoRef, srcObject,
                 metaPending, plays, streams, isStreaming, error, effect,
                 listeners, acq>>

\* lines 154-163 and 166-168: the analysis call resolved
AnalysisResolve ==
  /\ captures.pending > 0
  /\ captures' = [captures EXCEPT !.pending = @ - 1, !.shot = 0]
  /\ analyzing' = SetState(analyzing, FALSE)
  /\ UNCHANGED <<apiSupported, page, mounted, videoRef, srcObject,
                 metaPending, plays, streams, isStreaming, error, effect,
                 listeners, acq>>

\* the analysis failure has nothing else pending that changes error or the
\* attached stream: the stream of the capture is attached and live, error is
\* rendered and clear, no acquisition or play() is outstanding
CleanFailure ==
  /\ mounted
  /\ captures.shot # 0 /\ srcObject = captures.shot
  /\ streams[captures.shot] = "live"
  /\ error = Null /\ effect.depError = Null
  /\ InFlight = {} /\ plays = {} /\ effect.timer = None

\* lines 164-168: the analysis call rejected
AnalysisReject ==
  /\ captures.pending > 0
  /\ captures' = [captures EXCEPT
                    !.pending = @ - 1, !.shot = 0,
                    !.failedOn = IF CleanFailure THEN srcObject ELSE @]
  /\ error' = SetState(error, MsgAnalysisFailed)
  /\ analyzing' = SetState(analyzing, FALSE)
  /\ UNCHANGED <<apiSupported, page, mounted, videoRef, srcObject,
                 metaPending, plays, streams, isStreaming, effect, listeners,
                 acq>>

\* ------------------------------------------------------- specifications
InitComponent ==
  /\ mounted = TRUE
  /\ videoRef = TRUE
  /\ srcObject = 0
  /\ metaPending = FALSE
  /\ plays = {}
  /\ streams = <<>>
  /\ isStreaming = FALSE
  /\ analyzing = FALSE
  /\ error = Null
  /\ effect = [ran |-> FALSE, isMounted |-> FALSE, depError |-> Null,
               timer |-> None]
  /\ listeners = 0
  /\ acq = <<>>
  /\ captures = [clicks |-> 0, calls |-> 0, pending |-> 0, shot |-> 0,
                 failedOn |-> 0]

\* the component of a page served over https, before its first effect run
Init ==
  /\ apiSupported \in BOOLEAN
  /\ page = [https |-> TRUE, localhost |-> FALSE]
  /\ InitComponent

Acquire ==
  \E a \in 1..MaxAcq : GumResolve(a) \/ GumReject(a, LifecycleErrors)

Playback ==
  \E s \in 1..MaxAcq : PlayResolve(s) \/ PlayReject(s)

Next ==
  \/ Mount
  \/ EffectRerun
  \/ Unmount
  \/ TimerFires
  \/ VisibilityChange
  \/ RetryClick
  \/ Acquire
  \/ LoadedMetadata
  \/ Playback
  \/ CaptureClick
  \/ AnalysisResolve
  \/ AnalysisReject

Spec == Init /\ [][Next]_vars

\* One acquire call (the one of the mount timer) under every page context
\* and every combination of getUserMedia outcomes
InitAcquire ==
  /\ apiSupported \in BOOLEAN
  /\ page \in [https : BOOLEAN, localhost : BOOLEAN]
  /\ InitComponent

AcquireAny ==
  \E a \in 1..MaxAcq : GumResolve(a) \/ GumReject(a, ErrorNames)

NextAcquire ==
  \/ Mount
  \/ TimerFires
  \/ AcquireAny

SpecAcquire == InitAcquire /\ [][NextAcquire]_vars

\* ------------------------------------------------------------------ claims
Started == 1..Len(acq)

\* C1: in every reachable state at most one opened stream has unstopped
\* tracks (a stream still attached when startCamera is called is stopped
\* before a new stream is opened).
C1_AtMostOneLiveStream == Cardinality(LiveStreams) <= 1

\* C2: an acquisition is started only by the timer of the initial mount, by
\* a retry click or by a visibility regain; in particular an acquisition
\* that ended in Failed is not followed by one the user did not ask for.
C2_AcquireOnlyOnMountRetryVisibility ==
  \A a \in Started : acq[a].trigger \in {"mount", "retry", "visibility"}

\* C3: after the analysis call of a capture failed, the stream of the
\* capture stays attached with unstopped tracks, until the user retries or
\* the component unmounts.
C3_AnalysisFailureKeepsStream ==
  captures.failedOn # 0 =>
    /\ srcObject = captures.failedOn
    /\ streams[captures.failedOn] = "live"

\* C4: a visibility regain starts an acquisition only with no stream
\* attached, no error surfaced and no earlier acquisition in flight.
C4_VisibilityStartsOnlyWhenIdle ==
  \A a \in Started :
    acq[a].trigger = "visibility" =>
      /\ ~acq[a].pre.attached
      /\ ~acq[a].pre.shown
      /\ ~acq[a].pre.inflight

\* C5: after the component unmounted no stream with unstopped tracks
\* remains and no visibility listener is registered.
C5_TeardownReleasesEverything ==
  ~mounted => (LiveStreams = {} /\ listeners = 0)

\* C6: a getUserMedia success that arrives after the component unmounted is
\* not attached to the video element, installs no playback handler, changes
\* neither srcObject nor isStreaming, and its tracks are stopped at once.
C6_LateSuccessIsDiscarded ==
  [][(~mounted /\ Len(streams') > Len(streams)) =>
       /\ streams'[Len(streams')] = "stopped"
       /\ srcObject' = srcObject
       /\ metaPending' = metaPending
       /\ plays' = plays
       /\ isStreaming' = isStreaming]_vars

C6_Witness ==
  \E a \in Started :
    /\ acq[a].late
    /\ acq[a].outcome = "discarded"
    /\ streams[acq[a].stream] = "stopped"

\* C7: the strategies one startCamera call has attempted are a prefix of
\* the list rear, front, any, and once one of them succeeded no later one
\* is attempted: the attempts end with the successful one (a first-strategy
\* success leaves exactly one attempt).
C7_StopsAtFirstSuccess ==
  \A a \in Started :
    /\ Len(acq[a].attempts) <= Len(Strategies)
    /\ \A k \in 1..Len(acq[a].attempts) : acq[a].attempts[k] = Strategies[k]
    /\ acq[a].stream # 0 => Len(acq[a].attempts) = Len(acq[a].errs) + 1

C7_Witness ==
  \E a \in Started :
    /\ acq[a].pc = "done"
    /\ acq[a].outcome = "attached"
    /\ acq[a].attempts = <<"environment">>

\* a startCamera call that ended with every strategy failed
AllFailed(a) ==
  acq[a].pc = "done" /\ acq[a].stream = 0 /\ acq[a].attempts # <<>>

\* C8: a failed strategy is followed by the attempt of the next one, and
\* when all strategies failed the surfaced message is the classification
\* of the error of the last strategy, whatever the earlier errors were.
C8_LastFailureDecides ==
  \A a \in Started :
    /\ acq[a].pc = "await" => Len(acq[a].attempts) = Len(acq[a].errs) + 1
    /\ AllFailed(a) =>
         /\ acq[a].attempts = Strategies
         /\ Len(acq[a].errs) = Len(Strategies)
         /\ acq[a].outcome = FailureMessage(acq[a].errs[Len(Strategies)])
         /\ error = acq[a].outcome

C8_Witness ==
  \E a \in Started :
    /\ AllFailed(a)
    /\ FailureMessage(acq[a].errs[1]) # FailureMessage(acq[a].errs[3])
    /\ FailureMessage(acq[a].errs[2]) # FailureMessage(acq[a].errs[3])
    /\ error = FailureMessage(acq[a].errs[3])

\* the failure classification table of the specification, in priority order
KindRows ==
  <<[kind |-> "PermissionDenied",
     names |-> {"NotAllowedError", "PermissionDeniedError"}],
    [kind |-> "DeviceNotFound",
     names |-> {"NotFoundError", "DevicesNotFoundError"}],
    [kind |-> "DeviceBusy",
     names |-> {"NotReadableError", "TrackStartError"}],
    [kind |-> "ConstraintsUnsatisfiable",
     names |-> {"OverconstrainedError"}]>>

RowMatches(k, name) ==
  IF k <= Len(KindRows) THEN name \in KindRows[k].names
  ELSE IF k = Len(KindRows) + 1 THEN ~page.https /\ ~page.localhost
  ELSE TRUE

RowKind(k) ==
  IF k <= Len(KindRows) THEN KindRows[k].kind
  ELSE IF k = Len(KindRows) + 1 THEN "InsecureContext"
  ELSE "Unknown"

FirstMatchingKind(name) ==
  LET matching == {k \in 1..(Len(KindRows) + 2) : RowMatches(k, name)}
      first == CHOOSE k \in matching : \A j \in matching : k <= j
  IN RowKind(first)

\* the kind a surfaced message stands for
KindOf(msg) ==
  CASE msg = MsgPermissionDenied -> "PermissionDenied"
    [] msg = MsgDeviceNotFound -> "DeviceNotFound"
    [] msg = MsgDeviceBusy -> "DeviceBusy"
    [] msg = MsgConstraints -> "ConstraintsUnsatisfiable"
    [] msg = MsgInsecure -> "InsecureContext"
    [] msg = MsgUnknown -> "Unknown"
    [] msg = MsgUnsupported -> "Unsupported"
    [] OTHER -> "other"

\* C9: when all strategies failed, the kind of the surfaced message is the
\* first row of the table that the last error matches: a row of error
\* names first, InsecureContext only when none of them matched and the page
\* is neither https nor localhost, Unknown otherwise.
C9_FirstMatchingRow ==
  \A a \in Started :
    AllFailed(a) =>
      KindOf(acq[a].outcome) = FirstMatchingKind(acq[a].errs[Len(acq[a].errs)])

C9_Witness ==
  \E a \in Started :
    /\ AllFailed(a)
    /\ ~page.https /\ ~page.localhost
    /\ acq[a].errs[Len(acq[a].errs)] = "AbortError"
    /\ error = MsgInsecure

\* C10: on a platform without mediaDevices.getUserMedia every startCamera
\* call ends at once with the unsupported message and has attempted no
\* strategy; no stream is ever opened.
C10_UnsupportedAttemptsNothing ==
  ~apiSupported =>
    /\ streams = <<>>
    /\ \A a \in Started :
         /\ acq[a].pc = "done"
         /\ acq[a].outcome = MsgUnsupported
         /\ acq[a].attempts = <<>>
    /\ (mounted /\ Started # {}) => error = MsgUnsupported

C10_Witness ==
  /\ ~apiSupported
  /\ Started # {}
  /\ error = MsgUnsupported

\* playback of the attached stream has not been confirmed: its
\* loadedmetadata has not fired, or its play() has not settled
Unconfirmed == srcObject # 0 /\ (metaPending \/ srcObject \in plays)

\* C11: between the successful open of a stream and the confirmation of
\* its playback the surface is not streaming: isStreaming is true only once
\* the play() of the attached stream has resolved.
C11_StreamingOnlyAfterPlayback ==
  (mounted /\ Unconfirmed) => ~isStreaming

\* the messages of the failure kinds of the classification table
TableMessages ==
  {MsgUnsupported, MsgPermissionDenied, MsgDeviceNotFound, MsgDeviceBusy,
   MsgConstraints, MsgInsecure, MsgUnknown}

\* a pending play() settles in this step
PlaySettles == plays' # plays /\ plays' \subseteq plays

\* C12: a play() of an opened stream that settles either confirms playback
\* (isStreaming is set, error is untouched) or, rejected, surfaces the
\* preview-failed message, which is none of the messages of the
\* classification table, and leaves isStreaming as it was.
C12_PlaybackFailureIsDistinct ==
  [][(mounted /\ PlaySettles) =>
       \/ isStreaming' /\ error' = error
       \/ /\ error' = MsgPlaybackFailed
          /\ error' \notin TableMessages
          /\ isStreaming' = isStreaming]_vars

C12_Witness ==
  /\ mounted
  /\ srcObject # 0 /\ ~metaPending /\ plays = {}
  /\ error = MsgPlaybackFailed
  /\ ~isStreaming

\* C13: isStreaming is true only while a stream with unstopped tracks is
\* attached to the video element; in particular after stopCamera the
\* surface is not streaming (and no capture can start) until a later
\* acquisition succeeds, also when a play() resolves after the release.
C13_StreamingImpliesLiveStream ==
  (mounted /\ isStreaming) =>
    (srcObject # 0 /\ streams[srcObject] = "live")

\* the step runs the cleanup of the effect, and with it stopCamera, while
\* the component stays mounted
CleanupStep == effect.ran /\ effect'.depError # effect.depError

\* C14: stopCamera called with no stream attached (a second call in
\* succession, or a call before any stream was attached) stops no track and
\* leaves the component idle: no stream attached and not streaming.
C14_ReleaseIsIdempotent ==
  [][(CleanupStep /\ srcObject = 0) =>
       /\ streams' = streams
       /\ srcObject' = 0
       /\ ~isStreaming']_vars

\* C15: every capture click makes at most one analysis call, and at most
\* one analysis call is in flight: while one is, analyzing is true and the
\* capture button is disabled.
C15_CapturesAreSerialized ==
  /\ captures.calls <= captures.clicks
  /\ captures.pending <= 1
  /\ (mounted /\ captures.pending > 0) => (analyzing /\ ~CaptureEnabled)

C15_Witness ==
  /\ mounted
  /\ isStreaming
  /\ captures.calls = 2
  /\ captures.pending = 1

\* the number of getUserMedia calls of startCamera call a whose outcome is
\* not known yet
PendingOpens(a) ==
  Len(acq[a].attempts) - Len(acq[a].errs)
    - (IF acq[a].stream # 0 THEN 1 ELSE 0)

\* C16: a strategy is attempted only once the outcome of the previous one
\* is known, so that at most one getUserMedia call is pending at any time.
C16_OneOpenPendingAtATime ==
  /\ \A a \in Started : PendingOpens(a) \in {0, 1}
  /\ Cardinality(InFlight) <= 1

\* C17: at most one visibilitychange listener is registered at any time,
\* through every effect re-run, and once the component unmounted no timer
\* is left and no acquisition is started: an unmount before the mount delay
\* elapsed means that mount starts none.
C17_OneListenerAndCancelledTimer ==
  [][/\ listeners' <= 1
     /\ ~mounted' => (listeners' = 0 /\ effect'.timer = None)
     /\ ~mounted => Len(acq') = Len(acq)]_vars

C17_Witness ==
  /\ ~mounted
  /\ effect.ran
  /\ acq = <<>>
  /\ listeners = 0

\* C18: a capture that set analyzing to true sets it back to false on every
\* path: whenever analyzing is true an analysis call is pending, whose
\* settling resets it.
C18_AnalyzingIsReset ==
  (mounted /\ analyzing) => captures.pending > 0

====
